---- MODULE Spec2Model ----
(***************************************************************************)
(* Model of container-diff's diffing core:                                 *)
(*   utils/fs_utils.go        GetSize, getDirectorySize, GetModifiedEntries,*)
(*                            createDirectoryEntries, createEntryDiffs,     *)
(*                            DiffDirectory, checkSameFile                  *)
(*   differs/package_differs.go  multiVersionDiff, singleVersionDiff,       *)
(*                            multiVersionAnalysis, singleVersionAnalysis   *)
(*                                                                         *)
(* Strings are sequences of one-character strings, so that path joining,   *)
(* extension matching, suffix trimming and sort.Strings are computed.      *)
(* The filesystem is a function from absolute paths to nodes.              *)
(***************************************************************************)
EXTENDS Integers, Sequences, FiniteSets, TLC

VARIABLES fs, d1, d2, fwd, bwd, refl, sizeCall, analyzer, pkgCall

vars == <<fs, d1, d2, fwd, bwd, refl, sizeCall, analyzer, pkgCall>>

(***************************************************************************)
(* Bounds                                                                  *)
(***************************************************************************)
\* largest file length and largest directory stat size
MaxSize == 1

\* the byte values file contents are drawn from
Byte == {0, 1}

(***************************************************************************)
(* Strings                                                                 *)
(***************************************************************************)
\* byte values of the characters paths are made of (the order sort.Strings uses)
Code ==
  ("." :> 46) @@ ("/" :> 47) @@ ("a" :> 97) @@ ("b" :> 98) @@ ("c" :> 99)
  @@ ("p" :> 112) @@ ("q" :> 113) @@ ("r" :> 114) @@ ("t" :> 116)

\* Go's < on strings: bytewise lexicographic order
StrLess(a, b) ==
  \E i \in 1..Len(b) :
    /\ i <= Len(a) + 1
    /\ \A j \in 1..(i - 1) : a[j] = b[j]
    /\ \/ i = Len(a) + 1
       \/ Code[a[i]] < Code[b[i]]

RECURSIVE InsertSorted(_, _)
InsertSorted(x, s) ==
  IF s = <<>> THEN <<x>>
  ELSE IF StrLess(Head(s), x) THEN <<Head(s)>> \o InsertSorted(x, Tail(s))
  ELSE <<x>> \o s

\* sort.Strings: ascending, duplicates kept
RECURSIVE SortStrings(_)
SortStrings(s) ==
  IF s = <<>> THEN <<>> ELSE InsertSorted(Head(s), SortStrings(Tail(s)))

\* the elements of a sequence
Range(s) == {s[i] : i \in 1..Len(s)}

\* position of the last occurrence of character c in s, 0 if there is none
LastIndex(s, c) ==
  IF \E i \in 1..Len(s) : s[i] = c
  THEN CHOOSE i \in 1..Len(s) : s[i] = c /\ \A j \in (i + 1)..Len(s) : s[j] # c
  ELSE 0

\* filepath.Clean, as far as these paths need it: repeated separators collapse
\* and a trailing separator is dropped (no "." or ".." elements occur)
RECURSIVE Clean(_)
Clean(s) ==
  IF Len(s) <= 1 THEN s
  ELSE IF s[1] = "/" /\ s[2] = "/" THEN Clean(Tail(s))
  ELSE IF Len(s) = 2 /\ s[2] = "/" THEN <<s[1]>>
  ELSE <<s[1]>> \o Clean(Tail(s))

\* filepath.Join(root, name): empty elements are ignored, the rest joined by
\* a separator and cleaned
Join(root, name) ==
  IF name = <<>> THEN Clean(root)
  ELSE IF root = <<>> THEN Clean(name)
  ELSE Clean(root \o <<"/">> \o name)

\* fmt.Sprintf("%s%s", root, f)
Sprintf(root, f) == root \o f

\* filepath.Ext: the suffix beginning at the final dot of the last element
Ext(path) ==
  LET dot == LastIndex(path, ".")
      sep == LastIndex(path, "/")
  IN IF dot > sep THEN SubSeq(path, dot, Len(path)) ELSE <<>>

\* filepath.Dir for a cleaned absolute path: everything before the last separator
Dir(path) ==
  LET sep == LastIndex(path, "/")
  IN IF sep <= 1 THEN <<"/">> ELSE SubSeq(path, 1, sep - 1)

\* the extensions recognised as archives
TarExts == {<<".", "t", "a", "r">>}

\* whether the path names an archive (by file name only)
isTar(path) == Ext(path) \in TarExts

(***************************************************************************)
(* Filesystem                                                              *)
(***************************************************************************)
Root1 == <<"/", "p">>
Root2 == <<"/", "q">>

\* all byte strings of length n
RECURSIVE BytesOfLen(_)
BytesOfLen(n) ==
  IF n = 0 THEN {<<>>}
  ELSE {<<b>> \o t : b \in Byte, t \in BytesOfLen(n - 1)}

Datas == UNION {BytesOfLen(n) : n \in 0..MaxSize}

\* a path that does not exist
NoNode == [kind |-> "none", size |-> 0, data |-> <<>>, ok |-> FALSE]

\* a name its directory lists but whose stat fails (no search permission)
NoStatNode == [kind |-> "nostat", size |-> 0, data |-> <<>>, ok |-> FALSE]

\* regular files; ok = the content can be read
FileNodes ==
  {[kind |-> "file", size |-> Len(d), data |-> d, ok |-> o] :
     d \in Datas, o \in BOOLEAN}

\* directories; size is the directory's own stat size, ok = it can be listed
DirNodes ==
  {[kind |-> "dir", size |-> s, data |-> <<>>, ok |-> o] :
     s \in 0..MaxSize, o \in BOOLEAN}

Nodes == {NoNode, NoStatNode} \cup FileNodes \cup DirNodes

\* os.Stat / os.Lstat of a path
Stat(path) ==
  IF path \in DOMAIN fs /\ fs[path].kind \in {"file", "dir"}
  THEN [err |-> FALSE, isDir |-> fs[path].kind = "dir", size |-> fs[path].size]
  ELSE [err |-> TRUE, isDir |-> FALSE, size |-> 0]

\* ioutil.ReadFile of a path
ReadFile(path) ==
  IF ~Stat(path).err /\ fs[path].kind = "file" /\ fs[path].ok
  THEN [err |-> FALSE, data |-> fs[path].data]
  ELSE [err |-> TRUE, data |-> <<>>]

\* the sorted names a directory lists (readDirNames of filepath.Walk)
readDirNames(path) ==
  IF fs[path].ok
  THEN [err |-> FALSE,
        names |-> SortStrings(
          LET kids == {q \in DOMAIN fs : Dir(q) = path /\ q # path
                                          /\ fs[q].kind # "none"}
              RECURSIVE toSeq(_)
              toSeq(S) == IF S = {} THEN <<>>
                          ELSE LET x == CHOOSE y \in S : TRUE
                               IN <<x>> \o toSeq(S \ {x})
          IN toSeq(kids))]
  ELSE [err |-> TRUE, names |-> <<>>]


(***************************************************************************)
(* Size resolution                                                         *)
(***************************************************************************)
\* filepath.Walk below a path whose Lstat succeeded, with getDirectorySize's
\* callback: a non-directory adds its size; a directory that cannot be listed
\* ends the walk with the error; a listed name whose Lstat fails is handed to
\* the callback with a nil FileInfo, which the callback dereferences (panic).
\* A child that fails ends the walk, the sum so far is kept.
RECURSIVE walk(_)
RECURSIVE walkNames(_, _)
walk(path) ==
  LET info == Stat(path)
      rd == readDirNames(path)
  IN IF ~info.isDir THEN [size |-> info.size, err |-> FALSE, panic |-> FALSE]
     ELSE IF rd.err THEN [size |-> 0, err |-> TRUE, panic |-> FALSE]
     ELSE walkNames(rd.names, 0)

walkNames(names, acc) ==
  IF names = <<>> THEN [size |-> acc, err |-> FALSE, panic |-> FALSE]
  ELSE IF Stat(Head(names)).err
       THEN [size |-> acc, err |-> TRUE, panic |-> TRUE]
       ELSE LET r == walk(Head(names))
            IN IF r.err \/ r.panic
               THEN [size |-> acc + r.size, err |-> r.err, panic |-> r.panic]
               ELSE walkNames(Tail(names), acc + r.size)

\* getDirectorySize: (size, err) of the walk, or a panic
getDirectorySize(path) ==
  IF Stat(path).err
  THEN [size |-> 0, err |-> TRUE, panic |-> TRUE]
  ELSE walk(path)

\* GetSize: -1 when the stat fails; a directory's size is whatever
\* getDirectorySize returned, its error only logged; else the stat size
GetSize(path) ==
  LET stat == Stat(path)
      r == getDirectorySize(path)
  IN IF stat.err THEN [panic |-> FALSE, size |-> -1]
     ELSE IF stat.isDir THEN [panic |-> r.panic, size |-> IF r.panic THEN 0 ELSE r.size]
     ELSE [panic |-> FALSE, size |-> stat.size]

\* the paths at or below a path
AtOrBelow(path) ==
  {q \in DOMAIN fs :
     \/ q = path
     \/ Len(q) > Len(path) /\ SubSeq(q, 1, Len(path) + 1) = path \o <<"/">>}

\* whether a walk of the directory meets an error: a directory at or below it
\* cannot be listed, or a listed descendant's stat fails
WalkHitsError(path) ==
  \E q \in AtOrBelow(path) :
    \/ fs[q].kind = "dir" /\ ~fs[q].ok
    \/ fs[q].kind = "nostat"

\* the regular files at or below a path
RegularBelow(path) ==
  {q \in DOMAIN fs :
     /\ fs[q].kind = "file"
     /\ Len(q) > Len(path)
     /\ SubSeq(q, 1, Len(path) + 1) = path \o <<"/">>}

RECURSIVE SumSizes(_)
SumSizes(S) ==
  IF S = {} THEN 0
  ELSE LET q == CHOOSE x \in S : TRUE IN fs[q].size + SumSizes(S \ {q})

(***************************************************************************)
(* Set difference of path lists (diff_utils, modelled from the             *)
(* specification: the lists are treated as sets)                           *)
(***************************************************************************)
RECURSIVE Dedup(_)
Dedup(s) ==
  IF s = <<>> THEN <<>>
  ELSE <<Head(s)>> \o Dedup(SelectSeq(Tail(s), LAMBDA x : x # Head(s)))

GetMatches(a, b) == Dedup(SelectSeq(a, LAMBDA x : x \in Range(b)))

GetAdditions(a, b) == Dedup(SelectSeq(b, LAMBDA x : x \notin Range(a)))

GetDeletions(a, b) == Dedup(SelectSeq(a, LAMBDA x : x \notin Range(b)))

(***************************************************************************)
(* Directory diff                                                          *)
(***************************************************************************)
\* checkSameFile without the comparison of the bytes: files of equal size
\* that can be read are the same
checkSameFile_SizeOnly(f1name, f2name) ==
  LET f1stat == Stat(f1name)
      f2stat == Stat(f2name)
      f1 == ReadFile(f1name)
      f2 == ReadFile(f2name)
  IN IF f1stat.err THEN [same |-> FALSE, err |-> TRUE, reads |-> <<>>]
     ELSE IF f2stat.err THEN [same |-> FALSE, err |-> TRUE, reads |-> <<>>]
     ELSE IF f1stat.size # f2stat.size
          THEN [same |-> FALSE, err |-> FALSE, reads |-> <<>>]
     ELSE IF f1.err THEN [same |-> FALSE, err |-> TRUE, reads |-> <<f1name>>]
     ELSE IF f2.err
          THEN [same |-> FALSE, err |-> TRUE, reads |-> <<f1name, f2name>>]
     ELSE [same |-> TRUE, err |-> FALSE, reads |-> <<f1name, f2name>>]

\* checkSameFile: stat both, compare the sizes, and only if they agree read
\* both files and compare the bytes. reads lists the ReadFile calls made.
checkSameFile(f1name, f2name) ==
  LET f1stat == Stat(f1name)
      f2stat == Stat(f2name)
      f1 == ReadFile(f1name)
      f2 == ReadFile(f2name)
  IN IF f1stat.err THEN [same |-> FALSE, err |-> TRUE, reads |-> <<>>]
     ELSE IF f2stat.err THEN [same |-> FALSE, err |-> TRUE, reads |-> <<>>]
     ELSE IF f1stat.size # f2stat.size
          THEN [same |-> FALSE, err |-> FALSE, reads |-> <<>>]
     ELSE IF f1.err THEN [same |-> FALSE, err |-> TRUE, reads |-> <<f1name>>]
     ELSE IF f2.err
          THEN [same |-> FALSE, err |-> TRUE, reads |-> <<f1name, f2name>>]
     ELSE [same |-> f1.data = f2.data, err |-> FALSE,
           reads |-> <<f1name, f2name>>]

\* the loop's iteration without the archive branch: archives are compared
\* like any other file
ModifiedStep_NoTar(root1, root2, f) ==
  LET f1path == Sprintf(root1, f)
      f2path == Sprintf(root2, f)
      f1stat == Stat(f1path)
      f2stat == Stat(f2path)
      c == checkSameFile(f1path, f2path)
  IN IF f1stat.err THEN [mod |-> FALSE, reads |-> <<>>]
     ELSE IF f2stat.err THEN [mod |-> FALSE, reads |-> <<>>]
     ELSE IF ~f1stat.isDir
          THEN [mod |-> ~c.err /\ ~c.same, reads |-> c.reads]
     ELSE [mod |-> FALSE, reads |-> <<>>]

\* the loop's iteration with a failed comparison reported as a modification
ModifiedStep_ErrIsModified(root1, root2, f) ==
  LET f1path == Sprintf(root1, f)
      f2path == Sprintf(root2, f)
      f1stat == Stat(f1path)
      f2stat == Stat(f2path)
      c == checkSameFile(f1path, f2path)
  IN IF f1stat.err THEN [mod |-> FALSE, reads |-> <<>>]
     ELSE IF f2stat.err THEN [mod |-> FALSE, reads |-> <<>>]
     ELSE IF isTar(f1path)
          THEN [mod |-> f1stat.size # f2stat.size, reads |-> <<>>]
     ELSE IF ~f1stat.isDir
          THEN [mod |-> c.err \/ ~c.same, reads |-> c.reads]
     ELSE [mod |-> FALSE, reads |-> <<>>]

\* the loop's iteration without the directory check: directories are
\* compared like files
ModifiedStep_NoDirCheck(root1, root2, f) ==
  LET f1path == Sprintf(root1, f)
      f2path == Sprintf(root2, f)
      f1stat == Stat(f1path)
      f2stat == Stat(f2path)
      c == checkSameFile(f1path, f2path)
  IN IF f1stat.err THEN [mod |-> FALSE, reads |-> <<>>]
     ELSE IF f2stat.err THEN [mod |-> FALSE, reads |-> <<>>]
     ELSE IF isTar(f1path)
          THEN [mod |-> f1stat.size # f2stat.size, reads |-> <<>>]
     ELSE [mod |-> ~c.err /\ ~c.same, reads |-> c.reads]

\* one iteration of GetModifiedEntries' loop for the matched name f:
\* whether f is appended to modified, and the reads it made
ModifiedStep(root1, root2, f) ==
  LET f1path == Sprintf(root1, f)
      f2path == Sprintf(root2, f)
      f1stat == Stat(f1path)
      f2stat == Stat(f2path)
      c == checkSameFile(f1path, f2path)
  IN IF f1stat.err THEN [mod |-> FALSE, reads |-> <<>>]
     ELSE IF f2stat.err THEN [mod |-> FALSE, reads |-> <<>>]
     ELSE IF isTar(f1path)
          THEN [mod |-> f1stat.size # f2stat.size, reads |-> <<>>]
     ELSE IF ~f1stat.isDir
          THEN [mod |-> ~c.err /\ ~c.same, reads |-> c.reads]
     ELSE [mod |-> FALSE, reads |-> <<>>]

RECURSIVE ModifiedLoop(_, _, _)
ModifiedLoop(root1, root2, filematches) ==
  IF filematches = <<>> THEN [modified |-> <<>>, reads |-> <<>>]
  ELSE LET f == Head(filematches)
           st == ModifiedStep(root1, root2, f)
           rest == ModifiedLoop(root1, root2, Tail(filematches))
       IN [modified |-> (IF st.mod THEN <<f>> ELSE <<>>) \o rest.modified,
           reads |-> st.reads \o rest.reads]

\* GetModifiedEntries(d1, d2)
GetModifiedEntries(da, db) ==
  ModifiedLoop(da.Root, db.Root, GetMatches(da.Content, db.Content))

GetAddedEntries(da, db) == GetAdditions(da.Content, db.Content)

GetDeletedEntries(da, db) == GetDeletions(da.Content, db.Content)

\* what a call leaves behind when it panics, having made the given reads
Panicked(reads) ==
  [panic |-> TRUE, Adds |-> <<>>, Dels |-> <<>>, Mods |-> <<>>,
   same |-> FALSE, reads |-> reads]

\* createDirectoryEntries leaving out the names whose size is unknown
RECURSIVE createDirectoryEntries_SkipUnknown(_, _)
createDirectoryEntries_SkipUnknown(root, entryNames) ==
  IF entryNames = <<>> THEN [panic |-> FALSE, entries |-> <<>>]
  ELSE LET name == Head(entryNames)
           size == GetSize(Join(root, name))
           rest == createDirectoryEntries_SkipUnknown(root, Tail(entryNames))
       IN IF size.panic \/ rest.panic THEN [panic |-> TRUE, entries |-> <<>>]
          ELSE [panic |-> FALSE,
                entries |-> (IF size.size = -1 THEN <<>>
                             ELSE <<[Name |-> name, Size |-> size.size]>>)
                            \o rest.entries]

\* createDirectoryEntries: one (Name, Size) per name, unless GetSize panics
RECURSIVE createDirectoryEntries(_, _)
createDirectoryEntries(root, entryNames) ==
  IF entryNames = <<>> THEN [panic |-> FALSE, entries |-> <<>>]
  ELSE LET name == Head(entryNames)
           size == GetSize(Join(root, name))
           rest == createDirectoryEntries(root, Tail(entryNames))
       IN IF size.panic \/ rest.panic THEN [panic |-> TRUE, entries |-> <<>>]
          ELSE [panic |-> FALSE,
                entries |-> <<[Name |-> name, Size |-> size.size]>> \o rest.entries]

\* createEntryDiffs: one (Name, Size1, Size2) per name, unless GetSize panics
RECURSIVE createEntryDiffs(_, _, _)
createEntryDiffs(root1, root2, entryNames) ==
  IF entryNames = <<>> THEN [panic |-> FALSE, entries |-> <<>>]
  ELSE LET name == Head(entryNames)
           size1 == GetSize(Join(root1, name))
           size2 == GetSize(Join(root2, name))
           rest == createEntryDiffs(root1, root2, Tail(entryNames))
       IN IF size1.panic \/ size2.panic \/ rest.panic
          THEN [panic |-> TRUE, entries |-> <<>>]
          ELSE [panic |-> FALSE,
                entries |-> <<[Name |-> name, Size1 |-> size1.size,
                               Size2 |-> size2.size]>> \o rest.entries]

\* DiffDirectory with the additions sized under d1's root
DiffDirectory_AddsUnderRoot1(da, db) ==
  LET adds == SortStrings(GetAddedEntries(da, db))
      addedEntries == createDirectoryEntries(da.Root, adds)
      dels == SortStrings(GetDeletedEntries(da, db))
      deletedEntries == createDirectoryEntries(da.Root, dels)
      m == GetModifiedEntries(da, db)
      mods == SortStrings(m.modified)
      modifiedEntries == createEntryDiffs(da.Root, db.Root, mods)
      same == Len(adds) = 0 /\ Len(dels) = 0 /\ Len(mods) = 0
  IN IF addedEntries.panic \/ deletedEntries.panic THEN Panicked(<<>>)
     ELSE IF modifiedEntries.panic THEN Panicked(m.reads)
     ELSE [panic |-> FALSE, Adds |-> addedEntries.entries,
           Dels |-> deletedEntries.entries, Mods |-> modifiedEntries.entries,
           same |-> same, reads |-> m.reads]

\* DiffDirectory(d1, d2): the DirDiff, the same flag, and the ReadFile calls
DiffDirectory(da, db) ==
  LET adds == SortStrings(GetAddedEntries(da, db))
      addedEntries == createDirectoryEntries(db.Root, adds)
      dels == SortStrings(GetDeletedEntries(da, db))
      deletedEntries == createDirectoryEntries(da.Root, dels)
      m == GetModifiedEntries(da, db)
      mods == SortStrings(m.modified)
      modifiedEntries == createEntryDiffs(da.Root, db.Root, mods)
      same == Len(adds) = 0 /\ Len(dels) = 0 /\ Len(mods) = 0
  IN IF addedEntries.panic \/ deletedEntries.panic THEN Panicked(<<>>)
     ELSE IF modifiedEntries.panic THEN Panicked(m.reads)
     ELSE [panic |-> FALSE, Adds |-> addedEntries.entries,
           Dels |-> deletedEntries.entries, Mods |-> modifiedEntries.entries,
           same |-> same, reads |-> m.reads]


(***************************************************************************)
(* Inputs                                                                  *)
(***************************************************************************)
NameA == <<"/", "a">>
NameT == <<"/", "b", ".", "t", "a", "r">>
\* paths below /a, which snapshots taken with a shallow listing do not name
NameAB == <<"/", "a", "/", "b">>
NameAC == <<"/", "a", "/", "c">>

\* the entry names snapshots are made of
Names == {NameA, NameT}

\* all sequences over S of length up to n
RECURSIVE SeqsUpTo(_, _)
SeqsUpTo(S, n) ==
  IF n = 0 THEN {<<>>}
  ELSE LET shorter == SeqsUpTo(S, n - 1)
       IN shorter \cup {<<x>> \o t : x \in S, t \in {u \in shorter : Len(u) = n - 1}}

\* snapshot contents: any order, duplicates allowed
Contents == SeqsUpTo(Names, Cardinality(Names))

NotCalled == [done |-> FALSE]
NoDirectory == [Root |-> <<>>, Content |-> <<>>]
NoFS == <<>>
NoAnalyzer == [done |-> FALSE]

\* a file of the largest size, all zero bytes
ChildFile ==
  [kind |-> "file", size |-> MaxSize, data |-> [i \in 1..MaxSize |-> 0], ok |-> TRUE]

\* regular files that differ in what can be observed: the content of a file
\* that cannot be read is never seen, only its size
ObservableFiles ==
  {n \in FileNodes : n.ok \/ n.data = [i \in 1..n.size |-> 0]}

\* the trees a root can hold for the diff: /a, /b.tar and /a/c.
\* Archive-named entries are never read and a directory without entries is
\* never listed, so their ok flag is not varied; below /a only what the walk
\* can tell apart is varied (nothing, an entry whose stat fails, a file).
TreesUnder(root, content) ==
  LET listed(n, nodes) == IF n \in Range(content) THEN nodes ELSE {NoNode}
      \* the snapshot listed every entry of its root
      as == listed(NameA, {NoNode} \cup ObservableFiles \cup {n \in DirNodes : n.ok})
      ts == listed(NameT, {NoNode} \cup {n \in FileNodes : n.ok}
                            \cup {n \in DirNodes : n.ok})
      cs(a) == IF a.kind = "dir" THEN {NoNode, NoStatNode, ChildFile} ELSE {NoNode}
  IN UNION {{(Sprintf(root, NameA) :> a) @@ (Sprintf(root, NameT) :> t)
               @@ (Sprintf(root, NameAC) :> c) : c \in cs(a)} :
              a \in as, t \in ts}

\* the trees GetSize is tried on: /a with /a/b and /a/c below it
SizePaths == {Sprintf(Root1, NameA), Sprintf(Root1, NameAB), Sprintf(Root1, NameAC)}

SizeTrees ==
  {t \in [SizePaths -> Nodes] :
     /\ t[Sprintf(Root1, NameA)] # NoStatNode
     /\ t[Sprintf(Root1, NameA)].kind # "dir" =>
          /\ t[Sprintf(Root1, NameAB)] = NoNode
          /\ t[Sprintf(Root1, NameAC)] = NoNode}

(***************************************************************************)
(* Specification of size resolution                                        *)
(***************************************************************************)
InitSize ==
  /\ fs \in SizeTrees
  /\ d1 = NoDirectory /\ d2 = NoDirectory
  /\ fwd = NotCalled /\ bwd = NotCalled /\ refl = NotCalled
  /\ sizeCall = NotCalled
  /\ analyzer = NoAnalyzer /\ pkgCall = NotCalled

\* a call GetSize(path)
CallGetSize(path) ==
  /\ sizeCall' = [done |-> TRUE, path |-> path, out |-> GetSize(path)]
  /\ UNCHANGED <<fs, d1, d2, fwd, bwd, refl, analyzer, pkgCall>>

NextSize == \E path \in SizePaths : CallGetSize(path)

SpecSize == InitSize /\ [][NextSize]_vars

(***************************************************************************)
(* Specification of the directory diff                                     *)
(***************************************************************************)
InitDir ==
  /\ d1 \in [Root : {Root1}, Content : Contents]
  /\ d2 \in [Root : {Root2}, Content : Contents]
  /\ fs \in {t1 @@ t2 : t1 \in TreesUnder(Root1, d1.Content),
                         t2 \in TreesUnder(Root2, d2.Content)}
  /\ fwd = NotCalled /\ bwd = NotCalled /\ refl = NotCalled
  /\ sizeCall = NotCalled
  /\ analyzer = NoAnalyzer /\ pkgCall = NotCalled

\* DiffDirectory(d1, d2)
Forward ==
  /\ ~fwd.done
  /\ fwd' = [done |-> TRUE, out |-> DiffDirectory(d1, d2)]
  /\ UNCHANGED <<fs, d1, d2, bwd, refl, sizeCall, analyzer, pkgCall>>

\* DiffDirectory(d2, d1), on the same filesystem
Backward ==
  /\ fwd.done /\ ~bwd.done
  /\ bwd' = [done |-> TRUE, out |-> DiffDirectory(d2, d1)]
  /\ UNCHANGED <<fs, d1, d2, fwd, refl, sizeCall, analyzer, pkgCall>>

\* DiffDirectory(d1, d1), on the same filesystem
Reflexive ==
  /\ bwd.done /\ ~refl.done
  /\ refl' = [done |-> TRUE, out |-> DiffDirectory(d1, d1)]
  /\ UNCHANGED <<fs, d1, d2, fwd, bwd, sizeCall, analyzer, pkgCall>>

NextDir == Forward \/ Backward \/ Reflexive

SpecDir == InitDir /\ [][NextDir]_vars


(***************************************************************************)
(* Properties of the directory diff                                        *)
(***************************************************************************)
NamesOf(entries) == {entries[i].Name : i \in 1..Len(entries)}

\* the names present in both snapshots
Matched == Range(d1.Content) \cap Range(d2.Content)

\* the node a snapshot's entry resolves to
NodeAt(d, f) == fs[d.Root \o f]

Returned(call) == call.done /\ ~call.out.panic

\* C3: whenever DiffDirectory returns, same is true exactly when Adds, Dels
\* and Mods are all empty, and the three sequences are as long as the name
\* lists the flag is computed from.
C3_SameIffEmpty ==
  /\ Returned(fwd) =>
       /\ fwd.out.same <=>
            (fwd.out.Adds = <<>> /\ fwd.out.Dels = <<>> /\ fwd.out.Mods = <<>>)
       /\ Len(fwd.out.Adds) = Len(GetAddedEntries(d1, d2))
       /\ Len(fwd.out.Dels) = Len(GetDeletedEntries(d1, d2))
       /\ Len(fwd.out.Mods) = Len(GetModifiedEntries(d1, d2).modified)
  /\ Returned(bwd) =>
       /\ bwd.out.same <=>
            (bwd.out.Adds = <<>> /\ bwd.out.Dels = <<>> /\ bwd.out.Mods = <<>>)
       /\ Len(bwd.out.Adds) = Len(GetAddedEntries(d2, d1))
       /\ Len(bwd.out.Dels) = Len(GetDeletedEntries(d2, d1))
       /\ Len(bwd.out.Mods) = Len(GetModifiedEntries(d2, d1).modified)

\* a diff returned with an addition whose size is unknown and nothing else
C3_Witness ==
  /\ Returned(fwd)
  /\ ~fwd.out.same
  /\ fwd.out.Adds = <<[Name |-> NameA, Size |-> -1]>>
  /\ fwd.out.Dels = <<>> /\ fwd.out.Mods = <<>>

\* a matched name that is a regular file under both roots and not archive-named
RegularPair(f) ==
  /\ f \in Matched
  /\ ~isTar(d1.Root \o f)
  /\ NodeAt(d1, f).kind = "file" /\ NodeAt(d2, f).kind = "file"

\* the two files differ in size or in content
FilesDiffer(f) ==
  \/ NodeAt(d1, f).size # NodeAt(d2, f).size
  \/ NodeAt(d1, f).data # NodeAt(d2, f).data

NotRead(call, f) ==
  /\ d1.Root \o f \notin Range(call.out.reads)
  /\ d2.Root \o f \notin Range(call.out.reads)

\* C4 as stated: a non-archive regular file present in both snapshots is in
\* Mods exactly when the two files differ in size or content, and files of
\* different size are classified without being read.
C4_Original ==
  Returned(fwd) =>
    \A f \in Names : RegularPair(f) =>
      /\ f \in NamesOf(fwd.out.Mods) <=> FilesDiffer(f)
      /\ NodeAt(d1, f).size # NodeAt(d2, f).size => NotRead(fwd, f)

\* C4 amended: the same, for files whose content can be read whenever their
\* sizes agree (a failed read skips the entry).
C4_ByteExact ==
  Returned(fwd) =>
    \A f \in Names :
      (/\ RegularPair(f)
       /\ NodeAt(d1, f).size = NodeAt(d2, f).size =>
            NodeAt(d1, f).ok /\ NodeAt(d2, f).ok) =>
        /\ f \in NamesOf(fwd.out.Mods) <=> FilesDiffer(f)
        /\ NodeAt(d1, f).size # NodeAt(d2, f).size => NotRead(fwd, f)

\* two readable files of equal size and different content, reported modified
C4_Witness ==
  /\ Returned(fwd)
  /\ RegularPair(NameA)
  /\ NodeAt(d1, NameA).ok /\ NodeAt(d2, NameA).ok
  /\ NodeAt(d1, NameA).size = NodeAt(d2, NameA).size
  /\ NodeAt(d1, NameA).data # NodeAt(d2, NameA).data
  /\ NameA \in NamesOf(fwd.out.Mods)

\* a matched archive-named entry whose stat succeeds under both roots
ArchivePair(f) ==
  /\ f \in Matched
  /\ isTar(d1.Root \o f)
  /\ NodeAt(d1, f).kind \in {"file", "dir"}
  /\ NodeAt(d2, f).kind \in {"file", "dir"}

\* C5: an archive-named entry present in both snapshots whose stat succeeds
\* under both roots is in Mods exactly when the stat sizes differ, and its
\* content is never read.
C5_ArchiveSizeOnly ==
  Returned(fwd) =>
    \A f \in Names : ArchivePair(f) =>
      /\ f \in NamesOf(fwd.out.Mods) <=> NodeAt(d1, f).size # NodeAt(d2, f).size
      /\ NotRead(fwd, f)

\* two archives of equal size and different content, reported unchanged
C5_Witness ==
  /\ Returned(fwd)
  /\ ArchivePair(NameT)
  /\ NodeAt(d1, NameT).kind = "file" /\ NodeAt(d2, NameT).kind = "file"
  /\ NodeAt(d1, NameT).size = NodeAt(d2, NameT).size
  /\ NodeAt(d1, NameT).data # NodeAt(d2, NameT).data
  /\ NameT \notin NamesOf(fwd.out.Mods)

\* a snapshot without the entry f
Without(d, f) ==
  [Root |-> d.Root, Content |-> SelectSeq(d.Content, LAMBDA x : x # f)]

\* the stat of f fails under a root, or a read of f was tried and failed
InspectionFails(call, f) ==
  \/ NodeAt(d1, f).kind \notin {"file", "dir"}
  \/ NodeAt(d2, f).kind \notin {"file", "dir"}
  \/ \E d \in {d1, d2} :
       /\ d.Root \o f \in Range(call.out.reads)
       /\ ~(NodeAt(d, f).kind = "file" /\ NodeAt(d, f).ok)

\* C6: when the inspection of a matched path fails, DiffDirectory still
\* returns, the path is not in Mods, and Adds, Dels and the other paths'
\* classification are those of the diff of the snapshots without that path.
C6_BestEffortSkip ==
  fwd.done =>
    \A f \in Matched : InspectionFails(fwd, f) =>
      /\ ~fwd.out.panic
      /\ f \notin NamesOf(fwd.out.Mods)
      /\ fwd.out.Adds = DiffDirectory(Without(d1, f), Without(d2, f)).Adds
      /\ fwd.out.Dels = DiffDirectory(Without(d1, f), Without(d2, f)).Dels
      /\ fwd.out.Mods = DiffDirectory(Without(d1, f), Without(d2, f)).Mods

\* C7: when both directions return, the additions of one are the deletions of
\* the other, name for name and size for size, an addition sized under d2's
\* root and a deletion under d1's.
C7_SwapSymmetry ==
  (Returned(fwd) /\ Returned(bwd)) =>
    /\ NamesOf(fwd.out.Adds) = NamesOf(bwd.out.Dels)
    /\ NamesOf(fwd.out.Dels) = NamesOf(bwd.out.Adds)
    /\ Range(fwd.out.Adds) = Range(bwd.out.Dels)
    /\ Range(fwd.out.Dels) = Range(bwd.out.Adds)
    /\ \A e \in Range(fwd.out.Adds) :
         /\ e.Name \in Range(d2.Content) \ Range(d1.Content)
         /\ NodeAt(d2, e.Name).kind = "file" => e.Size = NodeAt(d2, e.Name).size
         /\ NodeAt(d2, e.Name).kind = "none" => e.Size = -1
    /\ \A e \in Range(fwd.out.Dels) :
         /\ e.Name \in Range(d1.Content) \ Range(d2.Content)
         /\ NodeAt(d1, e.Name).kind = "file" => e.Size = NodeAt(d1, e.Name).size
         /\ NodeAt(d1, e.Name).kind = "none" => e.Size = -1

\* both directions returned, with one addition and one deletion of known size
C7_Witness ==
  /\ Returned(fwd) /\ Returned(bwd)
  /\ fwd.out.Adds = <<[Name |-> NameT, Size |-> MaxSize]>>
  /\ bwd.out.Dels = <<[Name |-> NameT, Size |-> MaxSize]>>
  /\ fwd.out.Dels = <<[Name |-> NameA, Size |-> 0]>>
  /\ bwd.out.Adds = <<[Name |-> NameA, Size |-> 0]>>

\* C8: DiffDirectory(d, d) returns empty Adds, Dels and Mods and same = true,
\* whatever the snapshot lists.
C8_Reflexive ==
  refl.done =>
    /\ ~refl.out.panic
    /\ refl.out.Adds = <<>> /\ refl.out.Dels = <<>> /\ refl.out.Mods = <<>>
    /\ refl.out.same

\* a snapshot listing an unreadable file twice
C8_Witness ==
  /\ refl.done
  /\ d1.Content = <<NameA, NameA>>
  /\ NodeAt(d1, NameA).kind = "file" /\ ~NodeAt(d1, NameA).ok

\* a matched name that is a directory under both roots
DirectoryPair(f) ==
  /\ f \in Matched
  /\ NodeAt(d1, f).kind = "dir" /\ NodeAt(d2, f).kind = "dir"

\* C9 as stated: a directory present in both snapshots is never in Mods,
\* whatever its name.
C9_Original ==
  Returned(fwd) =>
    \A f \in Names : DirectoryPair(f) => f \notin NamesOf(fwd.out.Mods)

\* C9 amended: a directory present in both snapshots whose name is not
\* archive-named is never in Mods.
C9_DirectoriesSkipped ==
  Returned(fwd) =>
    \A f \in Names :
      (DirectoryPair(f) /\ ~isTar(d1.Root \o f)) => f \notin NamesOf(fwd.out.Mods)

\* two directories /a of different stat size, one holding a file
C9_Witness ==
  /\ Returned(fwd)
  /\ DirectoryPair(NameA)
  /\ NodeAt(d1, NameA).size # NodeAt(d2, NameA).size
  /\ fs[d1.Root \o NameAC] = ChildFile /\ fs[d2.Root \o NameAC] = NoNode
  /\ NameA \notin NamesOf(fwd.out.Mods)

\* C10: when both directions return, they report the same modified names,
\* with Size1 and Size2 exchanged.
C10_ModsSymmetric ==
  (Returned(fwd) /\ Returned(bwd)) =>
    {<<e.Name, e.Size1, e.Size2>> : e \in Range(fwd.out.Mods)}
      = {<<e.Name, e.Size2, e.Size1>> : e \in Range(bwd.out.Mods)}


(***************************************************************************)
(* Property of size resolution                                             *)
(***************************************************************************)
\* C1: GetSize never panics; it returns -1 when the stat fails or when the
\* walk of a directory meets an error, else the file's size, or for a
\* directory the sum of the sizes of the regular files below it.
C1_SentinelOnError ==
  sizeCall.done =>
    LET n == fs[sizeCall.path]
        out == sizeCall.out
    IN /\ ~out.panic
       /\ out.size =
            IF n.kind \notin {"file", "dir"} THEN -1
            ELSE IF n.kind = "file" THEN n.size
            ELSE IF WalkHitsError(sizeCall.path) THEN -1
            ELSE SumSizes(RegularBelow(sizeCall.path))


(***************************************************************************)
(* Package diff and analysis                                               *)
(***************************************************************************)
\* Go's nil error
Nil == "nil"

Errors == {"pull failed", "parse failed"}

Images == {[Source |-> "image1"], [Source |-> "image2"]}

AnalyzerSuffix == <<"A", "n", "a", "l", "y", "z", "e", "r">>

\* what Name() can return: with the suffix, without it, the suffix alone
AnalyzerNames == {<<"A", "p", "t">> \o AnalyzerSuffix, <<"P", "i", "p">>, AnalyzerSuffix}

\* strings.TrimSuffix
TrimSuffix(str, suffix) ==
  IF /\ Len(str) >= Len(suffix)
     /\ SubSeq(str, Len(str) - Len(suffix) + 1, Len(str)) = suffix
  THEN SubSeq(str, 1, Len(str) - Len(suffix))
  ELSE str

EmptyMap == [n \in {} |-> Nil]

\* utils.PackageInfo
Info(version) == [Version |-> version, Size |-> "1K"]

\* single-version inventories: package name -> PackageInfo
SingleInventories ==
  {P \in UNION {[D -> {Info("7.1"), Info("7.2")}] : D \in SUBSET {"curl", "wget"}} :
     "wget" \in DOMAIN P => P["wget"] = Info("7.1")}

\* multi-version inventories: package name -> version -> PackageInfo
MultiInventories ==
  UNION {[D -> {[v \in V |-> Info(v)] : V \in SUBSET {"v1", "v2", "v3"} \ {{}}}] :
           D \in SUBSET {"libfoo"}}

\* utils.GetMapDiff (modelled from the specification)
GetMapDiff(P1, P2) ==
  [Packages1 |-> [n \in DOMAIN P1 \ DOMAIN P2 |-> P1[n]],
   Packages2 |-> [n \in DOMAIN P2 \ DOMAIN P1 |-> P2[n]],
   InfoDiff |-> {[Package |-> n, Info1 |-> P1[n], Info2 |-> P2[n]] :
                   n \in {m \in DOMAIN P1 \cap DOMAIN P2 : P1[m] # P2[m]}}]

\* the versions an inventory holds of a package
VersionsOf(P, n) == IF n \in DOMAIN P THEN DOMAIN P[n] ELSE {}

\* utils.GetMultiVersionMapDiff (modelled from the specification): per
\* package, the versions only in P1 and the versions only in P2
GetMultiVersionMapDiff(P1, P2) ==
  [Packages1 |->
     [n \in {m \in DOMAIN P1 : VersionsOf(P1, m) \ VersionsOf(P2, m) # {}} |->
        [v \in VersionsOf(P1, n) \ VersionsOf(P2, n) |-> P1[n][v]]],
   Packages2 |->
     [n \in {m \in DOMAIN P2 : VersionsOf(P2, m) \ VersionsOf(P1, m) # {}} |->
        [v \in VersionsOf(P2, n) \ VersionsOf(P1, n) |-> P2[n][v]]],
   InfoDiff |-> {}]

\* the zero values of the diffs and of the result structs
ZeroPackageDiff == [Packages1 |-> EmptyMap, Packages2 |-> EmptyMap, InfoDiff |-> {}]

ZeroDiffResult ==
  [isNil |-> FALSE, Image1 |-> "", Image2 |-> "", DiffType |-> <<>>,
   Diff |-> ZeroPackageDiff]

ZeroAnalyzeResult ==
  [isNil |-> FALSE, Image |-> "", AnalyzeType |-> <<>>, Analysis |-> EmptyMap]

\* what getPackages answers for an image: an inventory, or an error
Fetches(inventories) ==
  [err : {Nil}, pack : inventories] \cup [err : Errors, pack : {EmptyMap}]

\* an analyzer: its name and what getPackages answers for each image
Analyzers ==
  [done : {TRUE}, shape : {"multi"}, name : AnalyzerNames,
   packages : [Images -> Fetches(MultiInventories)]]
  \cup
  [done : {TRUE}, shape : {"single"}, name : AnalyzerNames,
   packages : [Images -> Fetches(SingleInventories)]]

getPackages(differ, image) == differ.packages[image]

Name(differ) == differ.name

\* multiVersionDiff fetching both inventories before it looks at an error
multiVersionDiff_FetchBoth(image1, image2, differ) ==
  LET p1 == getPackages(differ, image1)
      p2 == getPackages(differ, image2)
  IN IF p1.err # Nil
     THEN [result |-> ZeroDiffResult, err |-> p1.err, calls |-> <<image1, image2>>,
           diffed |-> FALSE]
     ELSE IF p2.err # Nil
     THEN [result |-> ZeroDiffResult, err |-> p2.err, calls |-> <<image1, image2>>,
           diffed |-> FALSE]
     ELSE [result |-> [isNil |-> FALSE, Image1 |-> image1.Source,
                       Image2 |-> image2.Source,
                       DiffType |-> TrimSuffix(Name(differ), AnalyzerSuffix),
                       Diff |-> GetMultiVersionMapDiff(p1.pack, p2.pack)],
           err |-> Nil, calls |-> <<image1, image2>>, diffed |-> TRUE]

\* multiVersionDiff: the result, the error, the images getPackages was called
\* for, and whether a diff was computed
multiVersionDiff(image1, image2, differ) ==
  LET p1 == getPackages(differ, image1)
      p2 == getPackages(differ, image2)
  IN IF p1.err # Nil
     THEN [result |-> ZeroDiffResult, err |-> p1.err, calls |-> <<image1>>,
           diffed |-> FALSE]
     ELSE IF p2.err # Nil
     THEN [result |-> ZeroDiffResult, err |-> p2.err, calls |-> <<image1, image2>>,
           diffed |-> FALSE]
     ELSE [result |-> [isNil |-> FALSE, Image1 |-> image1.Source,
                       Image2 |-> image2.Source,
                       DiffType |-> TrimSuffix(Name(differ), AnalyzerSuffix),
                       Diff |-> GetMultiVersionMapDiff(p1.pack, p2.pack)],
           err |-> Nil, calls |-> <<image1, image2>>, diffed |-> TRUE]

\* singleVersionDiff
singleVersionDiff(image1, image2, differ) ==
  LET p1 == getPackages(differ, image1)
      p2 == getPackages(differ, image2)
  IN IF p1.err # Nil
     THEN [result |-> ZeroDiffResult, err |-> p1.err, calls |-> <<image1>>,
           diffed |-> FALSE]
     ELSE IF p2.err # Nil
     THEN [result |-> ZeroDiffResult, err |-> p2.err, calls |-> <<image1, image2>>,
           diffed |-> FALSE]
     ELSE [result |-> [isNil |-> FALSE, Image1 |-> image1.Source,
                       Image2 |-> image2.Source,
                       DiffType |-> TrimSuffix(Name(differ), AnalyzerSuffix),
                       Diff |-> GetMapDiff(p1.pack, p2.pack)],
           err |-> Nil, calls |-> <<image1, image2>>, diffed |-> TRUE]

\* multiVersionAnalysis
multiVersionAnalysis(image, differ) ==
  LET p == getPackages(differ, image)
  IN IF p.err # Nil
     THEN [result |-> ZeroAnalyzeResult, err |-> p.err, calls |-> <<image>>,
           diffed |-> FALSE]
     ELSE [result |-> [isNil |-> FALSE, Image |-> image.Source,
                       AnalyzeType |-> TrimSuffix(Name(differ), AnalyzerSuffix),
                       Analysis |-> p.pack],
           err |-> Nil, calls |-> <<image>>, diffed |-> FALSE]

\* singleVersionAnalysis
singleVersionAnalysis(image, differ) ==
  LET p == getPackages(differ, image)
  IN IF p.err # Nil
     THEN [result |-> ZeroAnalyzeResult, err |-> p.err, calls |-> <<image>>,
           diffed |-> FALSE]
     ELSE [result |-> [isNil |-> FALSE, Image |-> image.Source,
                       AnalyzeType |-> TrimSuffix(Name(differ), AnalyzerSuffix),
                       Analysis |-> p.pack],
           err |-> Nil, calls |-> <<image>>, diffed |-> FALSE]

(***************************************************************************)
(* Specification of the package operations                                 *)
(***************************************************************************)
InitPkg ==
  /\ analyzer \in Analyzers
  /\ pkgCall = NotCalled
  /\ fs = NoFS
  /\ d1 = NoDirectory /\ d2 = NoDirectory
  /\ fwd = NotCalled /\ bwd = NotCalled /\ refl = NotCalled
  /\ sizeCall = NotCalled

CallMultiVersionDiff(image1, image2) ==
  /\ analyzer.shape = "multi"
  /\ pkgCall' = [done |-> TRUE, op |-> "multiVersionDiff", images |-> <<image1, image2>>,
                 out |-> multiVersionDiff(image1, image2, analyzer)]
  /\ UNCHANGED <<fs, d1, d2, fwd, bwd, refl, sizeCall, analyzer>>

CallSingleVersionDiff(image1, image2) ==
  /\ analyzer.shape = "single"
  /\ pkgCall' = [done |-> TRUE, op |-> "singleVersionDiff", images |-> <<image1, image2>>,
                 out |-> singleVersionDiff(image1, image2, analyzer)]
  /\ UNCHANGED <<fs, d1, d2, fwd, bwd, refl, sizeCall, analyzer>>

CallMultiVersionAnalysis(image) ==
  /\ analyzer.shape = "multi"
  /\ pkgCall' = [done |-> TRUE, op |-> "multiVersionAnalysis", images |-> <<image>>,
                 out |-> multiVersionAnalysis(image, analyzer)]
  /\ UNCHANGED <<fs, d1, d2, fwd, bwd, refl, sizeCall, analyzer>>

CallSingleVersionAnalysis(image) ==
  /\ analyzer.shape = "single"
  /\ pkgCall' = [done |-> TRUE, op |-> "singleVersionAnalysis", images |-> <<image>>,
                 out |-> singleVersionAnalysis(image, analyzer)]
  /\ UNCHANGED <<fs, d1, d2, fwd, bwd, refl, sizeCall, analyzer>>

NextPkg ==
  \/ \E image1, image2 \in Images : CallMultiVersionDiff(image1, image2)
  \/ \E image1, image2 \in Images : CallSingleVersionDiff(image1, image2)
  \/ \E image \in Images : CallMultiVersionAnalysis(image)
  \/ \E image \in Images : CallSingleVersionAnalysis(image)

SpecPkg == InitPkg /\ [][NextPkg]_vars

(***************************************************************************)
(* Property of the package operations                                      *)
(***************************************************************************)
\* the first image of the call whose getPackages fails, if any
FailingFetch(images) ==
  IF getPackages(analyzer, images[1]).err # Nil THEN 1
  ELSE IF Len(images) = 2 /\ getPackages(analyzer, images[2]).err # Nil THEN 2
  ELSE 0

\* C2: when getPackages fails for an image an operation asks about, the
\* operation returns exactly that error and a non-nil result whose fields
\* are all zero; no diff is computed, and after a failure on image1
\* getPackages is not called for image2.
C2_FailFast ==
  pkgCall.done =>
    LET k == FailingFetch(pkgCall.images)
        out == pkgCall.out
    IN k # 0 =>
         /\ out.err = getPackages(analyzer, pkgCall.images[k]).err
         /\ ~out.result.isNil
         /\ out.result =
              IF Len(pkgCall.images) = 2 THEN ZeroDiffResult ELSE ZeroAnalyzeResult
         /\ ~out.diffed
         /\ out.calls = SubSeq(pkgCall.images, 1, k)

\* a multi-version diff whose second fetch fails after the first succeeded
\* with a non-empty inventory
C2_Witness ==
  /\ pkgCall.done
  /\ pkgCall.op = "multiVersionDiff"
  /\ pkgCall.images[1] # pkgCall.images[2]
  /\ getPackages(analyzer, pkgCall.images[1]).err = Nil
  /\ getPackages(analyzer, pkgCall.images[1]).pack # EmptyMap
  /\ getPackages(analyzer, pkgCall.images[2]).err = "parse failed"
  /\ pkgCall.out.err = "parse failed"
  /\ pkgCall.out.result = ZeroDiffResult

====
